---- MODULE Spec2Model ----
(***************************************************************************)
(* Canonical JSON serialization, content digests, prefixed identifiers,    *)
(* deepFreeze and deepClone of src/src/core/canonical.ts, as state         *)
(* machines over JavaScript values: Spec makes one call on one input,      *)
(* SpecStore freezes, clones and writes to a record, SpecCalls and         *)
(* SpecReadBack encode and hash it again, SpecModule mixes all five        *)
(* operations, SpecClones clones and writes, SpecThreads interleaves the   *)
(* steps of two calls, SpecSteps follows one call step by step and         *)
(* SpecRace a deepFreeze call with a writer beside it.  SpecReentry and    *)
(* SpecElection are the two policy functions written out in docs/ and      *)
(* unnamed/: calculate_reentry_difficulty and elect_primary.               *)
(*                                                                         *)
(* A JavaScript string is written as the sequence of its Unicode code      *)
(* points (well-formed strings only); ToCodeUnits gives the UTF-16 code    *)
(* units the engine compares and Utf8 the bytes the hash consumes.         *)
(* A value is a record tagged by t.  A container that nothing else aliases *)
(* is written inline ("arr", "obj"); a container that is shared or lies on *)
(* a cycle lives in the heap and is named by a "ref" value.                *)
(***************************************************************************)
EXTENDS Integers, Sequences, FiniteSets, TLC

VARIABLES
    heap,     \* address -> container: the objects reachable through refs
    arg,      \* the value passed to the call
    prefix,   \* id32's first argument
    pc,       \* "ready", or the name of the function that has returned
    ret,      \* the outcome of the call: a value returned or an exception thrown
    frozen,   \* the addresses of the containers Object.freeze has been applied to
    root,     \* the record a store keeps
    clone,    \* what the last deepClone returned
    before,   \* the heap as the last operation found it, and the write it attempted
    sealed,   \* what the record read as when deepFreeze returned it
    first,    \* the first call of canonicalize on the record since it last changed
    writes,   \* the number of writes attempted so far
    threads,  \* the calls in progress on the worker threads
    attempts, \* the training attempts recorded for the agent that asks for re-entry
    votes     \* the vote of each hub, in the order of the hubs

storeVars == <<frozen, root, clone, before, sealed, first, writes>>

\* the state of the policy functions of docs/ and unnamed/
policyVars == <<attempts, votes>>

vars == <<heap, arg, prefix, pc, ret, storeVars, threads, policyVars>>

-----------------------------------------------------------------------------
(* Bounds of the model *)

\* longest array and largest number of mapping entries of an input
MaxLen == 3
\* number of [x] / {k: x} wrappers put around a container of an input
MaxDepth == 2
\* call frames the engine allows before it throws RangeError
StackLimit == 8

-----------------------------------------------------------------------------
(* JavaScript values *)

Null == [t |-> "null"]
Undefined == [t |-> "undefined"]
Function == [t |-> "function"]
Bool(b) == [t |-> "bool", b |-> b]
Num(n) == [t |-> "num", k |-> "finite", n |-> n]
NegZero == [t |-> "num", k |-> "negzero", n |-> 0]
NaN == [t |-> "num", k |-> "nan", n |-> 0]
PosInfinity == [t |-> "num", k |-> "inf", n |-> 0]
NegInfinity == [t |-> "num", k |-> "neginf", n |-> 0]
BigInt(n) == [t |-> "bigint", n |-> n]
Str(s) == [t |-> "str", s |-> s]
Arr(items) == [t |-> "arr", items |-> items]
\* ents: the own enumerable string-keyed properties, <<key, value>>, in
\* property order, keys distinct
Obj(ents) == [t |-> "obj", ents |-> ents]
Ref(a) == [t |-> "ref", a |-> a]

\* no value: deepClone has not been called
Absent == [t |-> "absent"]

\* the outcome of a call
Returned(s) == [k |-> "string", s |-> s]
\* deepFreeze and deepClone return a value
ReturnedValue(v) == [k |-> "value", v |-> v]
ReturnedUndefined == [k |-> "undefined"]
Thrown(e) == [k |-> "throw", e |-> e]
NoResult == [k |-> "none"]

\* nothing recorded
Nothing == [k |-> "nothing"]

-----------------------------------------------------------------------------
(* Characters and strings *)

LBracket == 91
RBracket == 93
LBrace == 123
RBrace == 125
Comma == 44
Colon == 58
Underscore == 95
Quote == 34
Backslash == 92
Minus == 45
Digit0 == 48

TextNull == <<110, 117, 108, 108>>
TextTrue == <<116, 114, 117, 101>>
TextFalse == <<102, 97, 108, 115, 101>>
TextUndefined == <<117, 110, 100, 101, 102, 105, 110, 101, 100>>

\* lowercase hexadecimal digit of d in 0..15
HexDigit(d) == IF d < 10 THEN Digit0 + d ELSE 97 + (d - 10)

\* the UTF-16 code units of a code point
ToCodeUnits(cp) ==
    IF cp < 65536 THEN <<cp>>
    ELSE <<55296 + ((cp - 65536) \div 1024), 56320 + ((cp - 65536) % 1024)>>

RECURSIVE CodeUnits(_)
CodeUnits(s) ==
    IF s = <<>> THEN <<>> ELSE ToCodeUnits(Head(s)) \o CodeUnits(Tail(s))

\* Utf8Char of an encoding that has no character above U+007F
Utf8Char_lossy(cp) == IF cp < 128 THEN <<cp>> ELSE <<63>>

\* the UTF-8 bytes of a code point
Utf8Char(cp) ==
    IF cp < 128 THEN <<cp>>
    ELSE IF cp < 2048 THEN <<192 + (cp \div 64), 128 + (cp % 64)>>
    ELSE IF cp < 65536
         THEN <<224 + (cp \div 4096), 128 + ((cp \div 64) % 64), 128 + (cp % 64)>>
    ELSE <<240 + (cp \div 262144), 128 + ((cp \div 4096) % 64),
           128 + ((cp \div 64) % 64), 128 + (cp % 64)>>

\* the UTF-8 bytes of the characters lo .. hi of s
RECURSIVE Utf8Range(_, _, _)
Utf8Range(s, lo, hi) ==
    IF lo > hi THEN <<>>
    ELSE IF lo = hi THEN Utf8Char(s[lo])
    ELSE LET mid == (lo + hi) \div 2
         IN  Utf8Range(s, lo, mid) \o Utf8Range(s, mid + 1, hi)

Utf8(s) == Utf8Range(s, 1, Len(s))

\* a < b as the engine compares two sequences of code units
RECURSIVE SeqLess(_, _)
SeqLess(a, b) ==
    IF b = <<>> THEN FALSE
    ELSE IF a = <<>> THEN TRUE
    ELSE IF Head(a) # Head(b) THEN Head(a) < Head(b)
    ELSE SeqLess(Tail(a), Tail(b))

\* the element at position i removed
RemoveAt(s, i) == SubSeq(s, 1, i - 1) \o SubSeq(s, i + 1, Len(s))

\* Sort with the .sort() call left out: the keys in property order
Sort_unsorted(keys) == keys

\* Sort with a comparator that compares code points
RECURSIVE Sort_byCodePoint(_)
Sort_byCodePoint(keys) ==
    IF keys = <<>> THEN <<>>
    ELSE LET i == CHOOSE i \in 1..Len(keys) :
                     \A j \in 1..Len(keys) : ~SeqLess(keys[j], keys[i])
         IN  <<keys[i]>> \o Sort_byCodePoint(RemoveAt(keys, i))

\* Array.prototype.sort() without a comparator: ascending by UTF-16 code units
RECURSIVE Sort(_)
Sort(keys) ==
    IF keys = <<>> THEN <<>>
    ELSE LET i == CHOOSE i \in 1..Len(keys) :
                     \A j \in 1..Len(keys) :
                        ~SeqLess(CodeUnits(keys[j]), CodeUnits(keys[i]))
         IN  <<keys[i]>> \o Sort(RemoveAt(keys, i))

-----------------------------------------------------------------------------
(* JSON.stringify on a primitive *)

\* Number::toString of a non-negative integer
RECURSIVE Digits(_)
Digits(n) ==
    IF n < 10 THEN <<Digit0 + n>> ELSE Digits(n \div 10) \o <<Digit0 + (n % 10)>>

NumberToString(n) == IF n < 0 THEN <<Minus>> \o Digits(-n) ELSE Digits(n)

\* QuoteJSONString's escape of one code point
EscapeChar(c) ==
    IF c = Quote THEN <<Backslash, Quote>>
    ELSE IF c = Backslash THEN <<Backslash, Backslash>>
    ELSE IF c = 8 THEN <<Backslash, 98>>
    ELSE IF c = 9 THEN <<Backslash, 116>>
    ELSE IF c = 10 THEN <<Backslash, 110>>
    ELSE IF c = 12 THEN <<Backslash, 102>>
    ELSE IF c = 13 THEN <<Backslash, 114>>
    ELSE IF c < 32
         THEN <<Backslash, 117, Digit0, Digit0, HexDigit(c \div 16), HexDigit(c % 16)>>
    ELSE <<c>>

RECURSIVE EscapeAll(_)
EscapeAll(s) ==
    IF s = <<>> THEN <<>> ELSE EscapeChar(Head(s)) \o EscapeAll(Tail(s))

QuoteJSONString(s) == <<Quote>> \o EscapeAll(s) \o <<Quote>>

\* JSONstringify that emits a string without its quotes
JSONstringify_unquoted(value) ==
    CASE value.t = "null" -> Returned(TextNull)
      [] value.t = "bool" -> Returned(IF value.b THEN TextTrue ELSE TextFalse)
      [] value.t = "num" ->
            IF value.k = "finite" THEN Returned(NumberToString(value.n))
            ELSE IF value.k = "negzero" THEN Returned(<<Digit0>>)
            ELSE Returned(TextNull)
      [] value.t = "str" -> Returned(EscapeAll(value.s))
      [] value.t = "bigint" -> Thrown("TypeError")
      [] OTHER -> ReturnedUndefined

\* JSON.stringify(value) for null and for every value whose typeof is not 'object'
JSONstringify(value) ==
    CASE value.t = "null" -> Returned(TextNull)
      [] value.t = "bool" -> Returned(IF value.b THEN TextTrue ELSE TextFalse)
      [] value.t = "num" ->
            IF value.k = "finite" THEN Returned(NumberToString(value.n))
            ELSE IF value.k = "negzero" THEN Returned(<<Digit0>>)
            ELSE Returned(TextNull)
      [] value.t = "str" -> Returned(QuoteJSONString(value.s))
      [] value.t = "bigint" -> Thrown("TypeError")
      [] OTHER -> ReturnedUndefined

-----------------------------------------------------------------------------
(* canonicalize *)

\* typeof value === 'object' and value !== null
IsObject(value) == value.t \in {"arr", "obj", "ref"}

\* the container a container value denotes
Deref(h, value) == IF value.t = "ref" THEN h[value.a] ELSE value

\* Object.keys(value)
ObjectKeys(obj) == [i \in 1..Len(obj.ents) |-> obj.ents[i][1]]

\* value[key]
Get(obj, key) ==
    LET i == CHOOSE i \in 1..Len(obj.ents) : obj.ents[i][1] = key
    IN  obj.ents[i][2]

\* Join with the separator left out
RECURSIVE Join_nosep(_)
Join_nosep(items) ==
    IF items = <<>> THEN <<>>
    ELSE (IF Head(items).k = "string" THEN Head(items).s ELSE <<>>)
         \o Join_nosep(Tail(items))

\* Join into a buffer that still holds what the last call returned
Join_keptBuffer(items) == (IF ret.k = "string" THEN ret.s ELSE <<>>) \o Join_nosep(items)

\* Array.prototype.join(','): an undefined element is rendered as the empty string
RECURSIVE Join(_)
Join(items) ==
    IF items = <<>> THEN <<>>
    ELSE (IF Head(items).k = "string" THEN Head(items).s ELSE <<>>)
         \o (IF Len(items) > 1 THEN <<Comma>> ELSE <<>>)
         \o Join(Tail(items))

\* Interpolate of a template that has a space before each placeholder
Interpolate_spaced(r) == <<32>> \o (IF r.k = "string" THEN r.s ELSE TextUndefined)

\* ${x} in a template literal
Interpolate(r) == IF r.k = "string" THEN r.s ELSE TextUndefined

\* the exception of the first callback of a map() that throws, if any
FirstThrown(results) ==
    LET i == CHOOSE i \in 1..Len(results) :
                /\ results[i].k = "throw"
                /\ \A j \in 1..(i - 1) : results[j].k # "throw"
    IN  results[i]

AnyThrown(results) == \E i \in 1..Len(results) : results[i].k = "throw"

RECURSIVE canonicalize(_, _, _)
canonicalize(h, value, depth) ==
    IF depth > StackLimit THEN Thrown("RangeError")
    ELSE IF ~IsObject(value) THEN JSONstringify(value)
    ELSE IF Deref(h, value).t = "arr"
    THEN LET arr == Deref(h, value)
             items == [i \in 1..Len(arr.items) |->
                          canonicalize(h, arr.items[i], depth + 1)]
         IN  IF AnyThrown(items) THEN FirstThrown(items)
             ELSE Returned(<<LBracket>> \o Join(items) \o <<RBracket>>)
    ELSE LET obj == Deref(h, value)
             keys == Sort(ObjectKeys(obj))
             entries == [i \in 1..Len(keys) |->
                 LET canonicalKey == canonicalize(h, Str(keys[i]), depth + 1)
                     canonicalValue == canonicalize(h, Get(obj, keys[i]), depth + 1)
                 IN  IF canonicalKey.k = "throw" THEN canonicalKey
                     ELSE IF canonicalValue.k = "throw" THEN canonicalValue
                     ELSE Returned(Interpolate(canonicalKey) \o <<Colon>>
                                   \o Interpolate(canonicalValue))]
         IN  IF AnyThrown(entries) THEN FirstThrown(entries)
             ELSE Returned(<<LBrace>> \o Join(entries) \o <<RBrace>>)

-----------------------------------------------------------------------------
(* sha256Hex and id32 *)

\* bytes of a SHA-256 digest
DigestBytes == 32
\* hexadecimal characters id32 keeps of the digest
IdHexLen == 32

\* point to the power n, modulo the prime 46337
RECURSIVE Power(_, _)
Power(point, n) ==
    IF n = 0 THEN 1
    ELSE IF n % 2 = 0 THEN Power((point * point) % 46337, n \div 2)
    ELSE (point * Power(point, n - 1)) % 46337

\* Two bytes of the digest.  createHash('sha256') belongs to the runtime,
\* not to this repository; it is represented by a function with the same
\* interface (bytes in, DigestBytes bytes out, each a function of all input
\* bytes): the residues modulo the prime 46337 of the input read as a
\* polynomial, at DigestBytes / 2 different points.  Two different inputs of
\* at most DigestBytes / 2 bytes never share a digest, and no two inputs of
\* the model do, as SHA-256 is taken not to.  Residue is <<v, w>>: v the value
\* at point of the polynomial with the coefficients bytes[lo] + 1 ..
\* bytes[hi] + 1, w the power of point of their number.
RECURSIVE Residue(_, _, _, _)
Residue(bytes, point, lo, hi) ==
    IF lo > hi THEN <<0, 1>>
    ELSE IF lo = hi THEN <<bytes[lo] + 1, point>>
    ELSE LET mid == (lo + hi) \div 2
         IN  <<(Residue(bytes, point, lo, mid)[1] * Power(point, hi - mid)
                + Residue(bytes, point, mid + 1, hi)[1]) % 46337,
               Power(point, hi - lo + 1)>>

\* the four lowercase hexadecimal characters of two bytes
HexWord(w) ==
    <<HexDigit(w \div 4096), HexDigit((w \div 256) % 16),
      HexDigit((w \div 16) % 16), HexDigit(w % 16)>>

\* the hexadecimal characters of the digest's words lo .. hi
RECURSIVE HexRange(_, _, _)
HexRange(bytes, lo, hi) ==
    IF lo = hi THEN HexWord(Residue(bytes, lo + 1, 1, Len(bytes))[1])
    ELSE LET mid == (lo + hi) \div 2
         IN  HexRange(bytes, lo, mid) \o HexRange(bytes, mid + 1, hi)

\* createHash('sha256').update(bytes).digest('hex'): 2 * DigestBytes lowercase
\* hexadecimal characters
Sha256Hex(bytes) == HexRange(bytes, 1, DigestBytes \div 2)

\* hash.update(undefined) throws ERR_INVALID_ARG_TYPE, a TypeError
sha256Hex(h, input, depth) ==
    LET canonical == canonicalize(h, input, depth + 1)
    IN  IF canonical.k = "throw" THEN canonical
        ELSE IF canonical.k = "undefined" THEN Thrown("TypeError")
        ELSE Returned(Sha256Hex(Utf8(canonical.s)))

\* Slice that stops one character early
Slice_short(s, n) == SubSeq(s, 1, IF n - 1 < Len(s) THEN n - 1 ELSE Len(s))

\* String.prototype.slice(0, n)
Slice(s, n) == SubSeq(s, 1, IF n < Len(s) THEN n ELSE Len(s))

\* id32 that accepts only a prefix of one or more lowercase letters
id32_validated(h, pre, material, depth) ==
    IF pre = <<>> \/ \E i \in 1..Len(pre) : pre[i] \notin 97..122
    THEN Thrown("PrefixError")
    ELSE LET digest == sha256Hex(h, material, depth + 1)
         IN  IF digest.k = "throw" THEN digest
             ELSE Returned(pre \o <<Underscore>> \o Slice(digest.s, IdHexLen))

id32(h, pre, material, depth) ==
    LET digest == sha256Hex(h, material, depth + 1)
    IN  IF digest.k = "throw" THEN digest
        ELSE Returned(pre \o <<Underscore>> \o Slice(digest.s, IdHexLen))

-----------------------------------------------------------------------------
(* The inputs of the calls *)

KeyA == <<97>>
\* U+FF5E, one UTF-16 code unit, above the surrogate range
KeyTilde == <<65374>>
\* U+1F600, outside the Basic Multilingual Plane: the code units D83D DE00
KeyGrin == <<128512>>
Keys == {KeyA, KeyTilde, KeyGrin}

Strings ==
    { <<>>, <<97>>, <<49>>, <<49, 50>>, <<49, 44, 50>>, TextNull, TextTrue,
      <<Quote>>, <<Backslash>>, <<10>>, <<Backslash, 110>>, <<1>>, KeyGrin,
      <<97, 32, 98>> }

\* the primitives of the closed set {null, boolean, number, string}
SupportedAtoms ==
    {Null, Bool(TRUE), Bool(FALSE), NegZero}
    \cup {Num(n) : n \in {0, 1, 2, 3, 12, -1}}
    \cup {Str(s) : s \in Strings}

UnsupportedAtoms == {NaN, PosInfinity, NegInfinity, Undefined, Function, BigInt(1)}

Atoms == SupportedAtoms \cup UnsupportedAtoms

\* the members of the flat containers
Elems == {Num(1), Num(2), Num(3), Str(<<49>>), Arr(<<>>), Undefined, NaN}

\* the sequences over S of length at most n
SeqsUpTo(S, n) == UNION {[1..m -> S] : m \in 0..n}

\* s has no repeated element
Injective(s) == \A i, j \in 1..Len(s) : s[i] = s[j] => i = j

FlatArrays == {Arr(items) : items \in SeqsUpTo(Elems, MaxLen)}

\* the mappings with every choice, in every insertion order, of at most
\* MaxLen keys
FlatObjects ==
    {Obj([i \in 1..Len(ks) |-> <<ks[i], vs[i]>>]) :
        <<ks, vs>> \in {p \in SeqsUpTo(Keys, MaxLen) \X SeqsUpTo(Elems, MaxLen) :
                          Len(p[1]) = Len(p[2]) /\ Injective(p[1])}}

\* the containers that are nested inside other containers
Nestable ==
    { Arr(<<>>), Obj(<<>>), Arr(<<Num(1), Num(2)>>), Arr(<<Num(2), Num(1)>>),
      Obj(<< <<KeyA, Num(1)>>, <<KeyGrin, Num(2)>> >>),
      Obj(<< <<KeyGrin, Num(2)>>, <<KeyA, Num(1)>> >>) }

Wrap(S) == {Arr(<<x>>) : x \in S} \cup {Obj(<< <<KeyA, x>> >>) : x \in S}

RECURSIVE Wrapped(_)
Wrapped(d) ==
    IF d = 0 THEN Atoms \cup Nestable ELSE Wrap(Wrapped(d - 1))

\* the inputs that hold no reference into the heap
TreeInputs ==
    Atoms \cup FlatArrays \cup FlatObjects \cup UNION {Wrapped(d) : d \in 1..MaxDepth}

\* heaps with a container reachable from itself, and one with a container
\* reachable along two paths
CyclicHeaps ==
    { <<Arr(<<Ref(1)>>)>>,
      <<Obj(<< <<KeyA, Num(1)>>, <<KeyGrin, Ref(1)>> >>)>>,
      <<Arr(<<Num(1), Ref(2)>>), Obj(<< <<KeyA, Ref(1)>> >>)>> }

SharedHeaps == { <<Arr(<<Ref(2), Ref(2)>>), Obj(<< <<KeyA, Num(1)>> >>)>> }

EmptyHeap == <<>>

Scenarios ==
    {<<EmptyHeap, v>> : v \in TreeInputs}
    \cup {<<h, Ref(a)>> : <<h, a>> \in
             {p \in (CyclicHeaps \cup SharedHeaps) \X (1..2) : p[2] \in DOMAIN p[1]}}

\* what id32 is given as material
Materials == Atoms \cup Nestable \cup Wrapped(1) \cup {Ref(1)}

Prefixes == {<<>>, <<99, 114, 101, 100>>, <<97, Underscore, 98>>, <<32, 233, 47>>}

-----------------------------------------------------------------------------
(* The calls *)

Init ==
    /\ \E sc \in Scenarios : heap = sc[1] /\ arg = sc[2]
    /\ prefix = <<>>
    /\ pc = "ready"
    /\ ret = NoResult
    /\ frozen = {}
    /\ root = arg
    /\ clone = Absent
    /\ before = Nothing
    /\ sealed = Nothing
    /\ first = Nothing
    /\ writes = 0
    /\ attempts = 0
    /\ votes = <<>>
    /\ threads = <<>>

CallCanonicalize ==
    /\ pc = "ready"
    /\ ret' = canonicalize(heap, arg, 1)
    /\ pc' = "canonicalize"
    /\ UNCHANGED <<heap, arg, prefix, storeVars, threads, policyVars>>

CallSha256Hex ==
    /\ pc = "ready"
    /\ ret' = sha256Hex(heap, arg, 1)
    /\ pc' = "sha256Hex"
    /\ UNCHANGED <<heap, arg, prefix, storeVars, threads, policyVars>>

\* material is declared a string; structured records are passed as well
CallId32 ==
    /\ pc = "ready"
    /\ arg \in Materials
    /\ \E p \in Prefixes :
          /\ prefix' = p
          /\ ret' = id32(heap, p, arg, 1)
    /\ pc' = "id32"
    /\ UNCHANGED <<heap, arg, storeVars, threads, policyVars>>

Next == CallCanonicalize \/ CallSha256Hex \/ CallId32

Spec == Init /\ [][Next]_vars

-----------------------------------------------------------------------------
(* What the claims speak of *)

\* v is a Value of the closed set {null, boolean, finite number, string,
\* sequence, mapping}; a graph with a cycle is none
RECURSIVE Supported(_, _, _)
Supported(h, v, depth) ==
    CASE v.t \in {"null", "bool", "str"} -> TRUE
      [] v.t = "num" -> v.k \in {"finite", "negzero"}
      [] v.t = "arr" -> \A i \in 1..Len(v.items) : Supported(h, v.items[i], depth + 1)
      [] v.t = "obj" -> \A i \in 1..Len(v.ents) : Supported(h, v.ents[i][2], depth + 1)
      [] v.t = "ref" -> depth <= StackLimit /\ Supported(h, h[v.a], depth + 1)
      [] OTHER -> FALSE

\* v and w are the same value but for the insertion order of mapping keys;
\* with zeroes, -0 and 0 are the same number, as they are for ===
RECURSIVE Equiv(_, _, _)
Equiv(v, w, zeroes) ==
    IF v.t # w.t THEN FALSE
    ELSE CASE v.t = "arr" ->
                /\ Len(v.items) = Len(w.items)
                /\ \A i \in 1..Len(v.items) : Equiv(v.items[i], w.items[i], zeroes)
           [] v.t = "obj" ->
                /\ Len(v.ents) = Len(w.ents)
                /\ \A i \in 1..Len(v.ents) : \E j \in 1..Len(w.ents) :
                      /\ v.ents[i][1] = w.ents[j][1]
                      /\ Equiv(v.ents[i][2], w.ents[j][2], zeroes)
           [] v.t = "num" ->
                \/ v = w
                \/ zeroes /\ {v, w} = {Num(0), NegZero}
           [] OTHER -> v = w

SameUpToKeyOrder(v, w) == Equiv(v, w, FALSE)
StructEq(v, w) == Equiv(v, w, TRUE)

SupportedInputs == {v \in TreeInputs : Supported(EmptyHeap, v, 1)}

\* every supported input with its canonical string
CanonPairs == {<<w, canonicalize(EmptyHeap, w, 1)>> : w \in SupportedInputs}

\* C1: two supported values that differ only in the insertion order of their
\* mapping keys, at any depth, have the same canonical string and the same
\* digest.
C1_KeyOrderIndependent ==
    (pc \in {"canonicalize", "sha256Hex"} /\ heap = EmptyHeap
        /\ Supported(heap, arg, 1)) =>
    \A w \in SupportedInputs :
        SameUpToKeyOrder(arg, w) =>
            ret = IF pc = "canonicalize" THEN canonicalize(EmptyHeap, w, 1)
                  ELSE sha256Hex(EmptyHeap, w, 1)

\* the digest of {"a": {"😀": 2, "a": 1}} is the digest of {"a": {"a": 1, "😀": 2}}
C1_Witness ==
    /\ pc = "sha256Hex"
    /\ arg = Obj(<< <<KeyA, Obj(<< <<KeyGrin, Num(2)>>, <<KeyA, Num(1)>> >>)>> >>)
    /\ ret.k = "string"
    /\ ret = sha256Hex(EmptyHeap,
                Obj(<< <<KeyA, Obj(<< <<KeyA, Num(1)>>, <<KeyGrin, Num(2)>> >>)>> >>), 1)

\* C2: canonicalize is injective on supported values: two supported values
\* with the same canonical string are structurally equal (mappings compared
\* without regard to insertion order, numbers by ===).
C2_Injective ==
    (pc = "canonicalize" /\ heap = EmptyHeap /\ Supported(heap, arg, 1)) =>
    \A p \in CanonPairs : p[2] = ret => StructEq(arg, p[1])

\* the string "1" has been encoded, and not as the number 1 is
C2_Witness ==
    /\ pc = "canonicalize"
    /\ arg = Str(<<49>>)
    /\ ret.k = "string"
    /\ ret # canonicalize(EmptyHeap, Num(1), 1)

\* the addresses a value names, directly or inside its inline containers
RECURSIVE RefsOf(_)
RefsOf(v) ==
    CASE v.t = "ref" -> {v.a}
      [] v.t = "arr" -> UNION {RefsOf(v.items[i]) : i \in 1..Len(v.items)}
      [] v.t = "obj" -> UNION {RefsOf(v.ents[i][2]) : i \in 1..Len(v.ents)}
      [] OTHER -> {}

\* the addresses reachable from those of A
RECURSIVE Closure(_, _)
Closure(h, A) ==
    LET B == A \cup UNION {RefsOf(h[a]) : a \in A}
    IN  IF B = A THEN A ELSE Closure(h, B)

\* some container reachable from v is reachable from itself
Cyclic(h, v) ==
    \E a \in Closure(h, RefsOf(v)) : a \in Closure(h, RefsOf(h[a]))

\* v is or holds, at some depth, NaN, Infinity or -Infinity
RECURSIVE ContainsNonFinite(_)
ContainsNonFinite(v) ==
    CASE v.t = "num" -> v.k \in {"nan", "inf", "neginf"}
      [] v.t = "arr" -> \E i \in 1..Len(v.items) : ContainsNonFinite(v.items[i])
      [] v.t = "obj" -> \E i \in 1..Len(v.ents) : ContainsNonFinite(v.ents[i][2])
      [] OTHER -> FALSE

\* C3: canonicalize rejects a non-finite number, at the top level or nested,
\* with EncodingError and returns no string for it.
C3_NonFiniteRejected ==
    (pc = "canonicalize" /\ ContainsNonFinite(arg)) => ret = Thrown("EncodingError")

\* C4: canonicalize fails with EncodingError on a graph with a cycle instead
\* of recursing until the stack is exhausted.
C4_CycleDetected ==
    (pc = "canonicalize" /\ Cyclic(heap, arg)) => ret = Thrown("EncodingError")

\* C5: canonicalize raises EncodingError for a top-level value outside the
\* closed set of Values, and whatever it returns is a string.
C5_TotalOrEncodingError ==
    pc = "canonicalize" =>
        /\ arg.t \in {"undefined", "function", "bigint"} => ret = Thrown("EncodingError")
        /\ ret.k # "throw" => ret.k = "string"

\* C6: canonicalize returns no string for a container that holds, at any
\* depth, a member that is not a supported Value: the whole call fails.
C6_NoPartialString ==
    (pc = "canonicalize" /\ heap = EmptyHeap /\ IsObject(arg)
        /\ ~Supported(heap, arg, 1)) => ret.k = "throw"

\* the first position at which pat occurs in s, 0 when it does not occur
FindSub(s, pat) ==
    LET at == {i \in 1..(Len(s) - Len(pat) + 1) : SubSeq(s, i, i + Len(pat) - 1) = pat}
    IN  IF at = {} THEN 0 ELSE CHOOSE i \in at : \A j \in at : i <= j

\* where the entry of key starts in a canonical string
KeyAt(s, key) == FindSub(s, QuoteJSONString(key) \o <<Colon>>)

\* C7, as amended: the entries of a mapping appear in strictly ascending order
\* of their keys compared lexicographically by UTF-16 code unit.
C7_KeysByCodeUnit ==
    (pc = "canonicalize" /\ heap = EmptyHeap /\ arg.t = "obj" /\ ret.k = "string") =>
    \A i, j \in 1..Len(arg.ents) :
        SeqLess(CodeUnits(arg.ents[i][1]), CodeUnits(arg.ents[j][1])) =>
            /\ 0 < KeyAt(ret.s, arg.ents[i][1])
            /\ KeyAt(ret.s, arg.ents[i][1]) < KeyAt(ret.s, arg.ents[j][1])

\* C7, as claimed: the entries of a mapping appear in strictly ascending order
\* of their keys compared lexicographically by code point.
C7_KeysByCodePoint ==
    (pc = "canonicalize" /\ heap = EmptyHeap /\ arg.t = "obj" /\ ret.k = "string") =>
    \A i, j \in 1..Len(arg.ents) :
        SeqLess(arg.ents[i][1], arg.ents[j][1]) =>
            /\ 0 < KeyAt(ret.s, arg.ents[i][1])
            /\ KeyAt(ret.s, arg.ents[i][1]) < KeyAt(ret.s, arg.ents[j][1])

\* a mapping with U+FF5E inserted before U+1F600 and "a" has been encoded
C7_Witness ==
    /\ pc = "canonicalize"
    /\ arg = Obj(<< <<KeyTilde, Num(1)>>, <<KeyGrin, Num(2)>>, <<KeyA, Num(3)>> >>)
    /\ ret.k = "string"
    /\ KeyAt(ret.s, KeyA) < KeyAt(ret.s, KeyGrin)
    /\ KeyAt(ret.s, KeyGrin) < KeyAt(ret.s, KeyTilde)

\* the strings of strs with a comma between each two
RECURSIVE CommaSeparated(_)
CommaSeparated(strs) ==
    IF strs = <<>> THEN <<>>
    ELSE IF Len(strs) = 1 THEN strs[1]
    ELSE strs[1] \o <<Comma>> \o CommaSeparated(Tail(strs))

\* the canonical strings of the elements of a supported sequence
ElementStrings(arr) ==
    [i \in 1..Len(arr.items) |-> canonicalize(EmptyHeap, arr.items[i], 1).s]

\* b holds the elements of a, each as often, in another order
Reordered(a, b) ==
    /\ Len(a) = Len(b)
    /\ a # b
    /\ \A i \in 1..Len(a) :
          Cardinality({j \in 1..Len(a) : a[j] = a[i]})
              = Cardinality({j \in 1..Len(b) : b[j] = a[i]})

\* C8: the canonical string of a sequence of supported values is '[', the
\* canonical strings of its elements in index order with ',' between them,
\* and ']'; [1,2,3] gives "[1,2,3]", the empty sequence "[]", and a sequence
\* with the same elements in another order has another canonical string.
C8_SequenceInOrder ==
    (pc = "canonicalize" /\ heap = EmptyHeap /\ arg.t = "arr"
        /\ Supported(heap, arg, 1)) =>
    /\ ret = Returned(<<LBracket>> \o CommaSeparated(ElementStrings(arg)) \o <<RBracket>>)
    /\ arg = Arr(<<Num(1), Num(2), Num(3)>>) => ret.s = <<91, 49, 44, 50, 44, 51, 93>>
    /\ arg = Arr(<<>>) => ret.s = <<91, 93>>
    /\ \A p \in CanonPairs :
          (p[1].t = "arr" /\ Reordered(arg.items, p[1].items)) => p[2] # ret

\* [1,2,3] has been encoded as "[1,2,3]"
C8_Witness ==
    /\ pc = "canonicalize"
    /\ arg = Arr(<<Num(1), Num(2), Num(3)>>)
    /\ ret = Returned(<<91, 49, 44, 50, 44, 51, 93>>)

\* every supported input with its canonical string and its digest
DigestTriples == {<<p[1], p[2], sha256Hex(EmptyHeap, p[1], 1)>> : p \in CanonPairs}

\* C9: two supported values have the same digest if and only if they have the
\* same canonical string (the hash taken to be free of collisions).
C9_DigestIffCanonical ==
    (pc = "sha256Hex" /\ heap = EmptyHeap /\ Supported(heap, arg, 1)) =>
    LET canonical == canonicalize(EmptyHeap, arg, 1)
    IN  \A tr \in DigestTriples : (tr[3] = ret) <=> (tr[2] = canonical)

\* the digest of {"a":1,"😀":2} is that of {"😀":2,"a":1} and not that of
\* {"a":2,"😀":1}
C9_Witness ==
    /\ pc = "sha256Hex"
    /\ arg = Obj(<< <<KeyA, Num(1)>>, <<KeyGrin, Num(2)>> >>)
    /\ ret.k = "string"
    /\ ret = sha256Hex(EmptyHeap, Obj(<< <<KeyGrin, Num(2)>>, <<KeyA, Num(1)>> >>), 1)
    /\ ret # sha256Hex(EmptyHeap, Obj(<< <<KeyA, Num(2)>>, <<KeyGrin, Num(1)>> >>), 1)

HexChars == (48..57) \cup (97..102)

\* C10: id32(p, m) is p, '_' and the first IdHexLen characters of the
\* 2 * DigestBytes lowercase hexadecimal characters of sha256Hex(m), so
\* Len(p) + 1 + IdHexLen characters; a string m is hashed in its quoted
\* canonical form; id32 throws what sha256Hex(m) throws.
C10_Id32Format ==
    pc = "id32" =>
    LET digest == sha256Hex(heap, arg, 1)
    IN  IF digest.k = "throw" THEN ret = digest
        ELSE /\ Len(digest.s) = 2 * DigestBytes
             /\ ret = Returned(prefix \o <<Underscore>> \o SubSeq(digest.s, 1, IdHexLen))
             /\ Len(ret.s) = Len(prefix) + 1 + IdHexLen
             /\ \A i \in (Len(prefix) + 2)..Len(ret.s) : ret.s[i] \in HexChars
             /\ arg.t = "str" =>
                   SubSeq(ret.s, Len(prefix) + 2, Len(ret.s))
                       = SubSeq(Sha256Hex(Utf8(QuoteJSONString(arg.s))), 1, IdHexLen)

\* id32("cred", "a") has returned
C10_Witness ==
    /\ pc = "id32"
    /\ prefix = <<99, 114, 101, 100>>
    /\ arg = Str(<<97>>)
    /\ ret.k = "string"
    /\ Len(ret.s) = 37

-----------------------------------------------------------------------------
(* deepFreeze and deepClone                                                *)
(*                                                                         *)
(* In what follows every container lives in the heap and is named by a     *)
(* "ref" value, for each can be frozen, aliased and written to.            *)

\* obj[key] for key of Object.keys(obj), in that order
Members(c) == IF c.t = "arr" THEN c.items ELSE [i \in 1..Len(c.ents) |-> c.ents[i][2]]

\* deepFreeze that freezes the container it is given and none below it
deepFreeze_shallow(h, fz, obj, depth) ==
    IF IsObject(obj) THEN [frozen |-> fz \cup {obj.a}, ret |-> ReturnedValue(obj)]
    ELSE [frozen |-> fz, ret |-> ReturnedValue(obj)]

\* deepFreeze that goes into the members of mappings only
RECURSIVE deepFreeze_mappingsOnly(_, _, _, _)
deepFreeze_mappingsOnly(h, fz, obj, depth) ==
    IF depth > StackLimit THEN [frozen |-> fz, ret |-> Thrown("RangeError")]
    ELSE IF ~IsObject(obj) THEN [frozen |-> fz, ret |-> ReturnedValue(obj)]
    ELSE IF h[obj.a].t = "arr"
    THEN [frozen |-> fz \cup {obj.a}, ret |-> ReturnedValue(obj)]
    ELSE LET below == [i \in 1..Len(h[obj.a].ents) |->
                          deepFreeze_mappingsOnly(h, fz, h[obj.a].ents[i][2], depth + 1)]
         IN  IF \E i \in DOMAIN below : below[i].ret.k = "throw"
             THEN [frozen |-> fz \cup {obj.a}, ret |-> Thrown("RangeError")]
             ELSE [frozen |-> fz \cup {obj.a}
                                 \cup UNION {below[i].frozen : i \in DOMAIN below},
                   ret |-> ReturnedValue(obj)]

\* deepFreeze that thaws a container it finds frozen
deepFreeze_toggle(h, fz, obj, depth) ==
    IF ~IsObject(obj) THEN [frozen |-> fz, ret |-> ReturnedValue(obj)]
    ELSE IF obj.a \in fz THEN [frozen |-> fz \ {obj.a}, ret |-> ReturnedValue(obj)]
    ELSE [frozen |-> fz \cup {obj.a}, ret |-> ReturnedValue(obj)]

\* deepFreeze that refuses a container it finds frozen
deepFreeze_once(h, fz, obj, depth) ==
    IF ~IsObject(obj) THEN [frozen |-> fz, ret |-> ReturnedValue(obj)]
    ELSE IF obj.a \in fz THEN [frozen |-> fz, ret |-> Thrown("TypeError")]
    ELSE [frozen |-> fz \cup Closure(h, {obj.a}), ret |-> ReturnedValue(obj)]

\* deepFreeze that freezes and returns a copy of the container it is given
deepFreeze_returnsCopy(h, fz, obj, depth) ==
    IF IsObject(obj) THEN [frozen |-> fz, ret |-> ReturnedValue(h[obj.a])]
    ELSE [frozen |-> fz, ret |-> ReturnedValue(obj)]

\* deepFreeze(obj) with fz frozen already, as call number depth on the stack:
\* the containers frozen when the call ends, and how it ends.  A falsy value
\* is no object, so obj && typeof obj === 'object' is IsObject(obj).
\* freezeMembers is the for loop from its member number i on.
RECURSIVE deepFreeze(_, _, _, _), freezeMembers(_, _, _, _, _)
deepFreeze(h, fz, obj, depth) ==
    IF depth > StackLimit THEN [frozen |-> fz, ret |-> Thrown("RangeError")]
    ELSE IF ~IsObject(obj) THEN [frozen |-> fz, ret |-> ReturnedValue(obj)]
    ELSE LET loop == freezeMembers(h, fz \cup {obj.a}, Members(h[obj.a]), 1, depth)
         IN  IF loop.ret.k = "throw" THEN loop
             ELSE [frozen |-> loop.frozen, ret |-> ReturnedValue(obj)]

freezeMembers(h, fz, members, i, depth) ==
    IF i > Len(members) THEN [frozen |-> fz, ret |-> NoResult]
    ELSE LET call == deepFreeze(h, fz, members[i], depth + 1)
         IN  IF call.ret.k = "throw" THEN call
             ELSE freezeMembers(h, call.frozen, members, i + 1, depth)

\* the name of the property Object.prototype answers with an accessor
KeyProto == <<95, 95, 112, 114, 111, 116, 111, 95, 95>>

\* Assign in which every key names an own property
Assign_define(c, key, v) == Obj(Append(c.ents, <<key, v>>))

\* cloned[key] = v on a mapping made by {} that has no own property key.
\* For key "__proto__" the assignment calls the setter of Object.prototype:
\* it changes [[Prototype]] when v is an object or null and nothing otherwise,
\* and in neither case makes an own property.
Assign(c, key, v) ==
    IF key = KeyProto THEN c ELSE Obj(Append(c.ents, <<key, v>>))

\* the heap with container a replaced by c
Put(h, a, c) == [h EXCEPT ![a] = c]

\* deepClone that moves the members of its argument to the copy
deepClone_moves(h, obj, depth) ==
    IF ~IsObject(obj) THEN [heap |-> h, ret |-> ReturnedValue(obj)]
    ELSE [heap |-> Append(Put(h, obj.a, IF h[obj.a].t = "arr" THEN Arr(<<>>) ELSE Obj(<<>>)),
                          h[obj.a]),
          ret |-> ReturnedValue(Ref(Len(h) + 1))]

\* deepClone that copies each container once, however many paths lead to it
deepClone_graph(h, obj, depth) ==
    IF ~IsObject(obj) THEN [heap |-> h, ret |-> ReturnedValue(obj)]
    ELSE LET R == Closure(h, {obj.a})
             copyOf(a) == Len(h) + Cardinality({b \in R : b <= a})
             renamed(v) == IF v.t = "ref" THEN Ref(copyOf(v.a)) ELSE v
             copy(c) ==
                 IF c.t = "arr" THEN Arr([i \in 1..Len(c.items) |-> renamed(c.items[i])])
                 ELSE Obj([i \in 1..Len(c.ents) |->
                              <<c.ents[i][1], renamed(c.ents[i][2])>>])
         IN  [heap |-> h \o [n \in 1..Cardinality(R) |->
                                copy(h[CHOOSE a \in R : copyOf(a) = Len(h) + n])],
              ret |-> ReturnedValue(Ref(copyOf(obj.a)))]

\* deepClone that hands back the value it is given
deepClone_identity(h, obj, depth) == [heap |-> h, ret |-> ReturnedValue(obj)]

\* deepClone that copies the container it is given and none below it
deepClone_shallow(h, obj, depth) ==
    IF ~IsObject(obj) THEN [heap |-> h, ret |-> ReturnedValue(obj)]
    ELSE [heap |-> Append(h, Deref(h, obj)), ret |-> ReturnedValue(Ref(Len(h) + 1))]

\* deepClone(obj) as call number depth on the stack: the heap with the
\* containers the call has made, and how it ends.  cloneMembers is the loop
\* (the map() of a sequence, the for of a mapping) from member number i on,
\* filling the new container at address a.
RECURSIVE deepClone(_, _, _), cloneMembers(_, _, _, _, _)
deepClone(h, obj, depth) ==
    IF depth > StackLimit THEN [heap |-> h, ret |-> Thrown("RangeError")]
    ELSE IF ~IsObject(obj) THEN [heap |-> h, ret |-> ReturnedValue(obj)]
    ELSE LET made == IF Deref(h, obj).t = "arr" THEN Arr(<<>>) ELSE Obj(<<>>)
         IN  cloneMembers(Append(h, made), Len(h) + 1, Deref(h, obj), 1, depth)

cloneMembers(h, a, src, i, depth) ==
    IF i > Len(Members(src)) THEN [heap |-> h, ret |-> ReturnedValue(Ref(a))]
    ELSE LET call == deepClone(h, Members(src)[i], depth + 1)
         IN  IF call.ret.k = "throw" THEN call
             ELSE LET filled ==
                          IF src.t = "arr"
                          THEN Arr(Append(call.heap[a].items, call.ret.v))
                          ELSE Assign(call.heap[a], src.ents[i][1], call.ret.v)
                  IN  cloneMembers(Put(call.heap, a, filled), a, src, i + 1, depth)

-----------------------------------------------------------------------------
(* Writes to the containers of the store *)

\* writes attempted in one run
MaxWrites == 2

\* the value the writes put, and the key they add
NewValue == Num(9)
NewKey == KeyTilde

\* the writes a caller may attempt on container c: on a sequence push and the
\* replacement of an element, on a mapping the setting of a key it has, the
\* addition of one it has not and the deletion of one it has
WritesOn(c) ==
    IF c.t = "arr"
    THEN {[op |-> "replace", at |-> i] : i \in 1..Len(c.items)}
         \cup (IF Len(c.items) <= MaxLen THEN {[op |-> "push", at |-> 0]} ELSE {})
    ELSE {[op |-> "set", at |-> c.ents[i][1]] : i \in 1..Len(c.ents)}
         \cup {[op |-> "delete", at |-> c.ents[i][1]] : i \in 1..Len(c.ents)}
         \cup {[op |-> "add", at |-> k] :
                  k \in {NewKey} \ {c.ents[i][1] : i \in 1..Len(c.ents)}}

\* container c after write w on it has succeeded
Apply(c, w) ==
    CASE w.op = "replace" -> Arr([c.items EXCEPT ![w.at] = NewValue])
      [] w.op = "push" -> Arr(Append(c.items, NewValue))
      [] w.op = "set" ->
            Obj([i \in 1..Len(c.ents) |->
                    IF c.ents[i][1] = w.at THEN <<w.at, NewValue>> ELSE c.ents[i]])
      [] w.op = "add" -> Obj(Append(c.ents, <<w.at, NewValue>>))
      [] w.op = "delete" ->
            Obj(RemoveAt(c.ents, CHOOSE i \in 1..Len(c.ents) : c.ents[i][1] = w.at))

\* Write that does not look at the frozen flag
Write_unchecked(h, fz, a, w) == Put(h, a, Apply(h[a], w))

\* the heap after write w is attempted on the container at address a: a
\* container Object.freeze was applied to takes no write
Write(h, fz, a, w) == IF a \in fz THEN h ELSE Put(h, a, Apply(h[a], w))

\* what reading v gives: v with every ref replaced by the container it
\* names, down to the depth the stack allows
RECURSIVE Unfold(_, _, _)
Unfold(h, v, depth) ==
    IF ~IsObject(v) \/ depth > StackLimit THEN v
    ELSE LET c == Deref(h, v)
         IN  IF c.t = "arr"
             THEN Arr([i \in 1..Len(c.items) |-> Unfold(h, c.items[i], depth + 1)])
             ELSE Obj([i \in 1..Len(c.ents) |->
                          <<c.ents[i][1], Unfold(h, c.ents[i][2], depth + 1)>>])

-----------------------------------------------------------------------------
(* The record store: a record is frozen, read back, cloned and written to *)

\* MaxDepth containers, sequences and mappings in turn, around [1, 2]
Chain(d) ==
    [i \in 1..(d + 1) |->
        IF i = d + 1 THEN Arr(<<Num(1), Num(2)>>)
        ELSE IF i % 2 = 1 THEN Arr(<<Ref(i + 1)>>)
        ELSE Obj(<< <<KeyA, Ref(i + 1)>> >>)]

\* mappings that have "__proto__" as an own key, as JSON.parse makes them
ProtoHeaps ==
    { <<Obj(<< <<KeyProto, Num(1)>>, <<KeyA, Num(2)>> >>)>>,
      <<Obj(<< <<KeyProto, Ref(2)>> >>), Obj(<< <<KeyA, Num(1)>> >>)>> }

StoreHeaps ==
    { Chain(MaxDepth),
      <<Obj(<< <<KeyGrin, Num(2)>>, <<KeyA, Ref(2)>> >>), Arr(<<Num(1), Str(<<49>>)>>)>>,
      <<Arr(<<>>)>>,
      <<Arr(<<BigInt(1)>>)>> }
    \cup SharedHeaps \cup CyclicHeaps \cup ProtoHeaps

StoreScenarios ==
    {<<h, Ref(1)>> : h \in StoreHeaps}
    \cup {<<EmptyHeap, v>> : v \in {Null, Num(1), Str(KeyA), Undefined}}

\* the store names its records "cred_..."
RecordPrefix == <<99, 114, 101, 100>>

InitStore ==
    /\ \E sc \in StoreScenarios : heap = sc[1] /\ root = sc[2]
    /\ arg = root
    /\ prefix = RecordPrefix
    /\ pc = "ready"
    /\ ret = NoResult
    /\ frozen = {}
    /\ clone = Absent
    /\ before = Nothing
    /\ sealed = Nothing
    /\ first = Nothing
    /\ writes = 0
    /\ attempts = 0
    /\ votes = <<>>
    /\ threads = <<>>

\* the values the store passes to canonicalize, sha256Hex and deepClone
Records == {root, clone} \ {Absent}

\* what the store passes to deepFreeze: a record, or a container inside the
\* record it keeps
Freezable == Records \cup {Ref(a) : a \in Closure(heap, RefsOf(root))}

CallDeepFreeze ==
    \E obj \in Freezable :
        LET call == deepFreeze(heap, frozen, obj, 1)
        IN  /\ arg' = obj
            /\ frozen' = call.frozen
            /\ ret' = call.ret
            /\ pc' = "deepFreeze"
            /\ before' = [heap |-> heap, write |-> Nothing]
            /\ sealed' = IF sealed = Nothing /\ obj = root /\ call.ret.k = "value"
                         THEN [read |-> Unfold(heap, root, 1)]
                         ELSE sealed
            /\ UNCHANGED <<heap, prefix, root, clone, first, writes, threads, policyVars>>

\* what a call that throws has allocated is unreachable: the heap is as it was
CallDeepClone ==
    /\ clone = Absent
    /\ LET call == deepClone(heap, root, 1)
       IN  /\ arg' = root
           /\ heap' = IF call.ret.k = "throw" THEN heap ELSE call.heap
           /\ clone' = IF call.ret.k = "throw" THEN clone ELSE call.ret.v
           /\ ret' = call.ret
    /\ pc' = "deepClone"
    /\ before' = [heap |-> heap, write |-> Nothing]
    /\ UNCHANGED <<prefix, frozen, root, sealed, first, writes, threads, policyVars>>

\* a caller that holds a reference to the container at address a attempts a
\* write on it.  A write to a frozen container throws TypeError in strict
\* mode and is ignored otherwise: the caller gets no value either way.
AttemptWrite ==
    /\ writes < MaxWrites
    /\ \E a \in DOMAIN heap : \E w \in WritesOn(heap[a]) :
          /\ arg' = Ref(a)
          /\ heap' = Write(heap, frozen, a, w)
          /\ ret' = NoResult
          /\ before' = [heap |-> heap, write |-> w]
          /\ first' = IF /\ first # Nothing
                         /\ heap' # heap
                         /\ a \in Closure(heap, RefsOf(first.arg))
                      THEN Nothing ELSE first
    /\ pc' = "write"
    /\ writes' = writes + 1
    /\ UNCHANGED <<prefix, frozen, root, clone, sealed, threads, policyVars>>

ReadCanonicalize ==
    \E v \in Records :
        /\ arg' = v
        /\ ret' = canonicalize(heap, v, 1)
        /\ pc' = "canonicalize"
        /\ first' = IF first = Nothing /\ v = root
                    THEN [arg |-> v, ret |-> ret', objects |-> Len(heap)]
                    ELSE first
        /\ before' = [heap |-> heap, write |-> Nothing]
        /\ UNCHANGED <<heap, prefix, frozen, root, clone, sealed, writes, threads, policyVars>>

ReadSha256Hex ==
    /\ arg' = root
    /\ ret' = sha256Hex(heap, root, 1)
    /\ pc' = "sha256Hex"
    /\ before' = [heap |-> heap, write |-> Nothing]
    /\ UNCHANGED <<heap, prefix, frozen, root, clone, sealed, first, writes, threads, policyVars>>

ReadId32 ==
    /\ arg' = root
    /\ ret' = id32(heap, prefix, root, 1)
    /\ pc' = "id32"
    /\ before' = [heap |-> heap, write |-> Nothing]
    /\ UNCHANGED <<heap, prefix, frozen, root, clone, sealed, first, writes, threads, policyVars>>

NextStore == CallDeepFreeze \/ CallDeepClone \/ AttemptWrite

SpecStore == InitStore /\ [][NextStore]_vars

\* a caller that writes nothing: it encodes, hashes, names and clones
NextCalls == ReadCanonicalize \/ ReadSha256Hex \/ ReadId32 \/ CallDeepClone

SpecCalls == InitStore /\ [][NextCalls]_vars

\* the store reads a record it has frozen back, to encode and to hash it again
ReadBackCanonical == sealed # Nothing /\ ReadCanonicalize

ReadBackDigest == sealed # Nothing /\ ReadSha256Hex

NextReadBack == NextStore \/ ReadBackCanonical \/ ReadBackDigest

\* the records that are read back: a sequence with a nested mapping, a
\* sequence canonicalize throws on, a sequence that holds itself, a string
ReadBackScenarios ==
    { <<h, Ref(1)>> : h \in
        { <<Arr(<<Num(1), Ref(2)>>), Obj(<< <<KeyGrin, Num(2)>> >>)>>,
          <<Arr(<<BigInt(1)>>)>>,
          <<Arr(<<Ref(1)>>)>> } }
    \cup {<<EmptyHeap, Str(KeyA)>>}

InitReadBack ==
    /\ \E sc \in ReadBackScenarios : heap = sc[1] /\ root = sc[2]
    /\ arg = root
    /\ prefix = RecordPrefix
    /\ pc = "ready"
    /\ ret = NoResult
    /\ frozen = {}
    /\ clone = Absent
    /\ before = Nothing
    /\ sealed = Nothing
    /\ first = Nothing
    /\ writes = 0
    /\ attempts = 0
    /\ votes = <<>>
    /\ threads = <<>>

SpecReadBack == InitReadBack /\ [][NextReadBack]_vars

-----------------------------------------------------------------------------
(* What the claims say of deepFreeze *)

\* the addresses of the containers reachable from v, v's own among them
Reachable(h, v) == Closure(h, RefsOf(v))

\* C11: after deepFreeze(x) returns for an acyclic x, x and every container
\* reachable from x, a container shared between two parents among them, is
\* frozen.
C11_AllReachableFrozen ==
    (pc = "deepFreeze" /\ ret.k = "value" /\ ~Cyclic(heap, arg)) =>
        Reachable(heap, arg) \subseteq frozen

\* a sequence that holds one mapping twice has been frozen, the mapping with it
C11_Witness ==
    /\ pc = "deepFreeze"
    /\ heap \in SharedHeaps
    /\ arg = Ref(1)
    /\ ret = ReturnedValue(Ref(1))
    /\ frozen = {1, 2}

\* C12: deepFreeze(x) returns x itself, the same reference, for every x it
\* returns for: for every primitive and null, which it returns without error,
\* and for every acyclic graph; and no call of it, however it ends, changes a
\* key, the order of the keys, an element, the order of the elements or a
\* primitive value of any container.
C12_SameReferenceSameContent ==
    pc = "deepFreeze" =>
        /\ heap = before.heap
        /\ ret.k = "value" => ret.v = arg
        /\ (~IsObject(arg) \/ ~Cyclic(heap, arg)) => ret = ReturnedValue(arg)

\* the record of MaxDepth nested containers has been frozen and returned
C12_Witness ==
    /\ pc = "deepFreeze"
    /\ heap = Chain(MaxDepth)
    /\ arg = Ref(1)
    /\ ret = ReturnedValue(Ref(1))
    /\ frozen = DOMAIN heap
    /\ before.heap = Chain(MaxDepth)

\* C13: once deepFreeze(x) has returned, x reads the same after every
\* sequence of attempted writes on x or on a container nested in x, through
\* whatever reference to the container they are made.
C13_FrozenReadsUnchanged ==
    sealed # Nothing => Unfold(heap, root, 1) = sealed.read

\* MaxWrites writes have been attempted on the frozen record, the last one on
\* a container nested in it
C13_Witness ==
    /\ sealed # Nothing
    /\ pc = "write"
    /\ writes = MaxWrites
    /\ arg # root
    /\ arg.a \in Reachable(heap, root)
    /\ before.heap = heap

\* C14: deepFreeze on a graph in which a container is reachable from itself
\* visits each container once, returns the graph, and leaves every reachable
\* container frozen.
C14_CyclesHandled ==
    (pc = "deepFreeze" /\ Cyclic(heap, arg)) =>
        /\ ret = ReturnedValue(arg)
        /\ Reachable(heap, arg) \subseteq frozen

-----------------------------------------------------------------------------
(* What the claims say of deepClone *)

\* C15: for every supported value x, whatever strings its keys are,
\* deepClone(x) returns a value structurally equal to x, with the canonical
\* string of x; a primitive or null is returned as it is.
C15_CloneStructurallyEqual ==
    (pc = "deepClone" /\ Supported(before.heap, arg, 1)) =>
        /\ ret.k = "value"
        /\ StructEq(Unfold(heap, ret.v, 1), Unfold(heap, arg, 1))
        /\ canonicalize(heap, ret.v, 1) = canonicalize(heap, arg, 1)
        /\ ~IsObject(arg) => ret.v = arg

\* C16: no container reachable from deepClone(x) is a container reachable
\* from x, so a write to the clone at any depth leaves x as it was and a write
\* to x at any depth leaves the clone as it was.
C16_CloneIndependent ==
    clone # Absent =>
        /\ Reachable(heap, clone) \cap Reachable(heap, root) = {}
        /\ (pc = "write" /\ arg.a \in Reachable(heap, clone)) =>
                Unfold(heap, root, 1) = Unfold(before.heap, root, 1)
        /\ (pc = "write" /\ arg.a \in Reachable(heap, root)) =>
                Unfold(heap, clone, 1) = Unfold(before.heap, clone, 1)

\* a write to a container nested in the clone of the record of MaxDepth
\* nested containers has changed the clone
C16_Witness ==
    /\ clone # Absent
    /\ pc = "write"
    /\ before.heap[1] = Chain(MaxDepth)[1]
    /\ arg # clone
    /\ arg.a \in Reachable(heap, clone)
    /\ Unfold(heap, clone, 1) # Unfold(before.heap, clone, 1)
    /\ Unfold(heap, root, 1) = Unfold(before.heap, root, 1)

\* C17: no container of deepClone(deepFreeze(x)) is frozen: a write to the
\* clone's root or to a container nested in it succeeds and shows on the next
\* read, and x stays frozen.
C17_CloneOfFrozenMutable ==
    (sealed # Nothing /\ clone # Absent) =>
        /\ pc = "deepClone" => Reachable(heap, clone) \cap frozen = {}
        /\ (pc = "write" /\ arg.a \in Reachable(heap, clone) /\ arg.a \notin frozen) =>
                heap[arg.a] = Apply(before.heap[arg.a], before.write)
        /\ Reachable(heap, root) \subseteq frozen

\* the frozen mapping with a nested sequence has been cloned and the sequence
\* of the clone has taken a write
C17_Witness ==
    /\ sealed # Nothing
    /\ clone # Absent
    /\ pc = "write"
    /\ heap[1].t = "obj"
    /\ arg # clone
    /\ arg.a \in Reachable(heap, clone)
    /\ heap[arg.a] # before.heap[arg.a]
    /\ Reachable(heap, clone) \cap frozen = {}

-----------------------------------------------------------------------------
(* What the claims say of calls that follow one another *)

C19_FrozenDigestStable ==
    (sealed # Nothing /\ arg = root) =>
        /\ pc = "canonicalize" => ret = canonicalize(EmptyHeap, sealed.read, 1)
        /\ pc = "sha256Hex" => ret = sha256Hex(EmptyHeap, sealed.read, 1)

\* the frozen record has been hashed after MaxWrites attempted writes and a
\* clone
C19_Witness ==
    /\ sealed # Nothing
    /\ pc = "sha256Hex"
    /\ arg = root
    /\ IsObject(root)
    /\ writes = MaxWrites
    /\ clone # Absent
    /\ ret.k = "string"

-----------------------------------------------------------------------------
(* Calls in progress on several threads                                    *)
(*                                                                         *)
(* A call is taken apart into the steps between which another thread can   *)
(* run: the entry into canonicalize for one member, the return from it,    *)
(* hash.update and hash.digest.  A thread holds the frames of its own call *)
(* and the hash object its call has made.                                  *)

Threads == 1..2

\* frames of the functions that call canonicalize
Base(op) == CASE op = "canonicalize" -> 0 [] op = "sha256Hex" -> 1 [] op = "id32" -> 2

\* the calls of canonicalize a mapping makes, in order: for each key in
\* sorted order, one on the key and one on its value
KeyValueCalls(obj) ==
    LET keys == Sort(ObjectKeys(obj))
    IN  [j \in 1..(2 * Len(keys)) |->
            IF j % 2 = 1 THEN Str(keys[(j + 1) \div 2]) ELSE Get(obj, keys[j \div 2])]

\* the frame of canonicalize(value) for a container: the calls it has to
\* make on its members and the strings they have returned so far
Frame(h, value) ==
    LET c == Deref(h, value)
    IN  [t |-> c.t,
         todo |-> IF c.t = "arr" THEN c.items ELSE KeyValueCalls(c),
         parts |-> <<>>]

\* what canonicalize returns from a frame whose members are done
Finish(f) ==
    IF f.t = "arr" THEN Returned(<<LBracket>> \o Join(f.parts) \o <<RBracket>>)
    ELSE LET entries == [j \in 1..(Len(f.parts) \div 2) |->
                            Returned(Interpolate(f.parts[2 * j - 1]) \o <<Colon>>
                                     \o Interpolate(f.parts[2 * j]))]
         IN  Returned(<<LBrace>> \o Join(entries) \o <<RBrace>>)

\* the stack with result r handed to the frame on top of it
Deliver(stack, r) ==
    [stack EXCEPT ![Len(stack)].parts = Append(@, r)]

\* thread t after canonicalize has been called on value from the frames it has
Enter(h, t, value) ==
    IF Base(t.op) + Len(t.stack) + 1 > StackLimit
    THEN [t EXCEPT !.stack = <<>>, !.canon = Thrown("RangeError")]
    ELSE IF IsObject(value) THEN [t EXCEPT !.stack = Append(@, Frame(h, value))]
    ELSE LET r == JSONstringify(value)
         IN  IF r.k = "throw" THEN [t EXCEPT !.stack = <<>>, !.canon = r]
             ELSE IF t.stack = <<>> THEN [t EXCEPT !.canon = r]
             ELSE [t EXCEPT !.stack = Deliver(@, r)]

\* thread t after the frame on top of its stack has returned
Leave(t) ==
    LET r == Finish(t.stack[Len(t.stack)])
        rest == SubSeq(t.stack, 1, Len(t.stack) - 1)
    IN  IF rest = <<>> THEN [t EXCEPT !.stack = <<>>, !.canon = r]
        ELSE [t EXCEPT !.stack = Deliver(rest, r)]

\* a hash object that update() has given bytes
Fed(bytes) == [k |-> "bytes", b |-> bytes]

\* Updated of a module that makes one hash object and feeds it from every call
Updated_oneHash(ts, p) ==
    Fed((IF \E q \in DOMAIN ts : q # p /\ ts[q].fed # Nothing
         THEN (ts[CHOOSE q \in DOMAIN ts : q # p /\ ts[q].fed # Nothing]).fed.b
         ELSE <<>>)
        \o Utf8(ts[p].canon.s))

\* the hash object of thread p's call after hash.update(canonical): the call
\* makes the object itself, with createHash
Updated(ts, p) == Fed(Utf8(ts[p].canon.s))

\* thread p of ts after its next step
Advance(h, ts, p) ==
    LET t == ts[p]
    IN  IF t.canon = NoResult
        THEN IF t.stack = <<>> THEN Enter(h, t, t.input)
             ELSE LET top == t.stack[Len(t.stack)]
                  IN  IF Len(top.parts) = Len(top.todo) THEN Leave(t)
                      ELSE Enter(h, t, top.todo[Len(top.parts) + 1])
        ELSE IF t.op = "canonicalize" \/ t.canon.k = "throw" THEN [t EXCEPT !.out = t.canon]
        ELSE IF t.canon.k = "undefined" THEN [t EXCEPT !.out = Thrown("TypeError")]
        ELSE IF t.fed = Nothing THEN [t EXCEPT !.fed = Updated(ts, p)]
        ELSE IF t.op = "sha256Hex" THEN [t EXCEPT !.out = Returned(Sha256Hex(t.fed.b))]
        ELSE [t EXCEPT !.out = Returned(RecordPrefix \o <<Underscore>>
                                        \o Slice(Sha256Hex(t.fed.b), IdHexLen))]

\* one sequence that holds itself for each thread
ThreadHeap == [p \in Threads |-> Arr(<<Ref(p)>>)]

\* what a thread is given: each thread has values of its own
ThreadInputs(p) ==
    { Num(1), Str(KeyA), Undefined,
      Arr(<<Num(1), Arr(<<>>)>>),
      Arr(<<Undefined, BigInt(1)>>),
      Obj(<< <<KeyGrin, Num(2)>>, <<KeyA, Arr(<<Num(1), Num(2)>>)>> >>),
      Ref(p) }

Ops == {"canonicalize", "sha256Hex", "id32"}

InitThreads ==
    /\ heap = ThreadHeap
    /\ threads \in [Threads -> [op : Ops, input : UNION {ThreadInputs(p) : p \in Threads},
                                stack : {<<>>}, canon : {NoResult}, fed : {Nothing},
                                out : {NoResult}]]
    /\ \A p \in Threads : threads[p].input \in ThreadInputs(p)
    /\ arg = Null
    /\ root = Null
    /\ prefix = RecordPrefix
    /\ pc = "ready"
    /\ ret = NoResult
    /\ frozen = {}
    /\ clone = Absent
    /\ before = Nothing
    /\ sealed = Nothing
    /\ first = Nothing
    /\ writes = 0
    /\ attempts = 0
    /\ votes = <<>>

ThreadStep ==
    \E p \in DOMAIN threads :
        /\ threads[p].op \in Ops
        /\ threads[p].out = NoResult
        /\ threads' = [threads EXCEPT ![p] = Advance(heap, threads, p)]
        /\ UNCHANGED <<heap, arg, prefix, pc, ret, storeVars, policyVars>>

NextThreads == ThreadStep

SpecThreads == InitThreads /\ [][NextThreads]_vars

\* what the call of thread t returns when no other call is in progress
Alone(h, t) ==
    CASE t.op = "canonicalize" -> canonicalize(h, t.input, 1)
      [] t.op = "sha256Hex" -> sha256Hex(h, t.input, 1)
      [] t.op = "id32" -> id32(h, RecordPrefix, t.input, 1)

\* C20: in every interleaving of the steps of two calls of canonicalize,
\* sha256Hex and id32 on inputs of their own, each call ends as it ends when
\* it runs alone.
C20_InterleavingsAgree ==
    \A p \in Threads : threads[p].out # NoResult => threads[p].out = Alone(heap, threads[p])

\* both calls have ended, one a digest and one an identifier of a mapping
C20_Witness ==
    /\ threads[1].op = "sha256Hex"
    /\ threads[2].op = "id32"
    /\ \A p \in Threads :
          /\ threads[p].input.t = "obj"
          /\ threads[p].out.k = "string"

-----------------------------------------------------------------------------
(* deepFreeze and deepClone step by step.  A call is a thread as above; a
   frame of deepFreeze is [a, i]: the container it has frozen and the member
   its loop is at; a frame of deepClone is [src, dst, i]: the container it
   copies, the container it fills and the member it is at. *)

\* ObjectFreeze of a traversal that descends without freezing
ObjectFreeze_skipped(fz, a) == fz

\* the frozen containers after Object.freeze on the container at a
ObjectFreeze(fz, a) == fz \cup {a}

\* NextMember of a loop that never moves on
NextMember_stuck(t) == t

\* thread t after the frame on top of its stack has taken its next member
NextMember(t) == [t EXCEPT !.stack[Len(t.stack)].i = @ + 1]

\* deepFreeze(obj) called from the frames thread t has
FreezeCall(fz, t, obj) ==
    IF Len(t.stack) + 1 > StackLimit
    THEN [frozen |-> fz, t |-> [t EXCEPT !.stack = <<>>, !.out = Thrown("RangeError")]]
    ELSE IF IsObject(obj)
    THEN [frozen |-> ObjectFreeze(fz, obj.a),
          t |-> [t EXCEPT !.stack = Append(@, [a |-> obj.a, i |-> 1])]]
    ELSE [frozen |-> fz,
          t |-> IF t.stack = <<>> THEN [t EXCEPT !.out = ReturnedValue(obj)]
                ELSE NextMember(t)]

\* thread t after the deepFreeze frame on top of its stack has returned
FreezeReturn(t) ==
    LET rest == SubSeq(t.stack, 1, Len(t.stack) - 1)
    IN  IF rest = <<>> THEN [t EXCEPT !.stack = <<>>, !.out = ReturnedValue(t.input)]
        ELSE NextMember([t EXCEPT !.stack = rest])

\* the frozen set and thread t after the next step of its deepFreeze call
FreezeAdvance(h, fz, t) ==
    IF t.stack = <<>> THEN FreezeCall(fz, t, t.input)
    ELSE LET top == t.stack[Len(t.stack)]
             members == Members(h[top.a])
         IN  IF top.i > Len(members) THEN [frozen |-> fz, t |-> FreezeReturn(t)]
             ELSE FreezeCall(fz, t, members[top.i])

\* the heap without what an abandoned deepClone call of thread t had made
Abandon(h, t) ==
    IF t.stack = <<>> THEN h ELSE SubSeq(h, 1, t.stack[1].dst - 1)

\* the heap after value v has been stored as member i of the copy that the
\* frame on top of thread t's stack fills
Store(h, t, v) ==
    LET top == t.stack[Len(t.stack)]
        src == h[top.src]
    IN  Put(h, top.dst,
            IF src.t = "arr" THEN Arr(Append(h[top.dst].items, v))
            ELSE Assign(h[top.dst], src.ents[top.i][1], v))

\* deepClone(obj) called from the frames thread t has
CloneCall(h, t, obj) ==
    IF Len(t.stack) + 1 > StackLimit
    THEN [heap |-> Abandon(h, t),
          t |-> [t EXCEPT !.stack = <<>>, !.out = Thrown("RangeError")]]
    ELSE IF IsObject(obj)
    THEN [heap |-> Append(h, IF h[obj.a].t = "arr" THEN Arr(<<>>) ELSE Obj(<<>>)),
          t |-> [t EXCEPT !.stack = Append(@, [src |-> obj.a, dst |-> Len(h) + 1,
                                               i |-> 1])]]
    ELSE IF t.stack = <<>> THEN [heap |-> h, t |-> [t EXCEPT !.out = ReturnedValue(obj)]]
    ELSE [heap |-> Store(h, t, obj), t |-> NextMember(t)]

\* the heap and thread t after the deepClone frame on top of its stack has
\* returned the copy it filled
CloneReturn(h, t) ==
    LET made == Ref(t.stack[Len(t.stack)].dst)
        rest == SubSeq(t.stack, 1, Len(t.stack) - 1)
    IN  IF rest = <<>>
        THEN [heap |-> h, t |-> [t EXCEPT !.stack = <<>>, !.out = ReturnedValue(made)]]
        ELSE [heap |-> Store(h, [t EXCEPT !.stack = rest], made),
              t |-> NextMember([t EXCEPT !.stack = rest])]

\* the heap and thread t after the next step of its deepClone call
CloneAdvance(h, t) ==
    IF t.stack = <<>> THEN CloneCall(h, t, t.input)
    ELSE LET top == t.stack[Len(t.stack)]
             members == Members(h[top.src])
         IN  IF top.i > Len(members) THEN CloneReturn(h, t)
             ELSE CloneCall(h, t, members[top.i])

\* one step of a deepFreeze call; the call's first step notes what its
\* argument reads as, its last what the record reads as once frozen
FreezeStep ==
    \E p \in DOMAIN threads :
        /\ threads[p].op = "deepFreeze"
        /\ threads[p].out = NoResult
        /\ LET s == FreezeAdvance(heap, frozen, threads[p])
           IN  /\ threads' = [threads EXCEPT ![p] =
                                 IF threads[p].stack = <<>>
                                 THEN [s.t EXCEPT !.seen =
                                          [read |-> Unfold(heap, threads[p].input, 1)]]
                                 ELSE s.t]
               /\ frozen' = s.frozen
               /\ sealed' = IF s.t.out.k = "value" /\ s.t.input = root /\ sealed = Nothing
                            THEN [read |-> Unfold(heap, root, 1)]
                            ELSE sealed
        /\ UNCHANGED <<heap, arg, prefix, pc, ret, root, clone, before, first, writes, policyVars>>

\* one step of a deepClone call
CloneStep ==
    \E p \in DOMAIN threads :
        /\ threads[p].op = "deepClone"
        /\ threads[p].out = NoResult
        /\ LET s == CloneAdvance(heap, threads[p])
           IN  /\ threads' = [threads EXCEPT ![p] = s.t]
               /\ heap' = s.heap
        /\ UNCHANGED <<arg, prefix, pc, ret, storeVars, policyVars>>

\* the operations of the module
AllOps == Ops \cup {"deepFreeze", "deepClone"}

\* the stores a call is followed through step by step: those without a cycle,
\* and a sequence that holds itself
StepScenarios ==
    {s \in StoreScenarios : s[1] \notin CyclicHeaps} \cup {<<<<Arr(<<Ref(1)>>)>>, Ref(1)>>}

\* one call of one operation on the record of a store
InitSteps ==
    /\ \E s \in StepScenarios : heap = s[1] /\ root = s[2]
    /\ threads \in [{1} -> [op : AllOps, input : {root}, stack : {<<>>},
                            canon : {NoResult}, fed : {Nothing}, out : {NoResult},
                            seen : {Nothing}]]
    /\ arg = root
    /\ prefix = RecordPrefix
    /\ pc = "ready"
    /\ ret = NoResult
    /\ frozen = {}
    /\ clone = Absent
    /\ before = Nothing
    /\ sealed = Nothing
    /\ first = Nothing
    /\ writes = 0
    /\ attempts = 0
    /\ votes = <<>>

NextSteps == ThreadStep \/ FreezeStep \/ CloneStep

\* a call that has been made runs on: its steps are the statements of one
\* synchronous function
SpecSteps == InitSteps /\ [][NextSteps]_vars /\ WF_vars(NextSteps)

\* the calls that have ended
Ended == {p \in DOMAIN threads : threads[p].out # NoResult}

\* C21: on every finite acyclic graph, one with a container shared between
\* two parents included, every call of canonicalize, sha256Hex, id32,
\* deepFreeze and deepClone ends, and it does not end by running out of
\* stack.
C21_Terminates ==
    /\ <>(Ended = DOMAIN threads)
    /\ [](~Cyclic(heap, root) =>
             \A p \in Ended : threads[p].out # Thrown("RangeError"))

\* a deepClone call on a sequence that holds one mapping twice has returned
C21_Witness ==
    /\ threads[1].op = "deepClone"
    /\ threads[1].out.k = "value"
    /\ IsObject(root)
    /\ heap[root.a] = Arr(<<Ref(2), Ref(2)>>)

-----------------------------------------------------------------------------
(* The re-entry policy of docs/DROPOUT_AND_REENTRY_POLICY.md *)

\* most training attempts recorded for an agent
MaxAttempts == 60

\* the float h / 100
Float(h) == [t |-> "float", h |-> h]

\* calculate_reentry_difficulty(agent_id), count being what
\* count_training_attempts(agent_id) returns
calculate_reentry_difficulty(count) ==
    IF count = 1 THEN Float(110)
    ELSE IF count = 2 THEN Float(125)
    ELSE Float(150)

\* src/core at rest: no call made, nothing stored
AtRest ==
    /\ heap = EmptyHeap
    /\ arg = Null
    /\ prefix = RecordPrefix
    /\ pc = "ready"
    /\ ret = NoResult
    /\ frozen = {}
    /\ root = Null
    /\ clone = Absent
    /\ before = Nothing
    /\ sealed = Nothing
    /\ first = Nothing
    /\ writes = 0
    /\ threads = <<>>

\* an agent with any number of recorded attempts asks for re-entry
InitReentry ==
    /\ AtRest
    /\ attempts \in 0..MaxAttempts
    /\ votes = <<>>

CallReentryDifficulty ==
    /\ pc = "ready"
    /\ ret' = ReturnedValue(calculate_reentry_difficulty(attempts))
    /\ pc' = "calculate_reentry_difficulty"
    /\ UNCHANGED <<heap, arg, prefix, storeVars, threads, policyVars>>

NextReentry == CallReentryDifficulty

SpecReentry == InitReentry /\ [][NextReentry]_vars

\* C22: calculate_reentry_difficulty returns the multiplier of the policy
\* table (1.10 at the first re-entry, 1.25 at the second, 1.50 from the third
\* on), and no smaller attempt count, that of an agent with no recorded
\* attempt included, gets a larger multiplier.
C22_MatchesTableNeverDecreases ==
    pc = "calculate_reentry_difficulty" =>
        /\ attempts = 1 => ret = ReturnedValue(Float(110))
        /\ attempts = 2 => ret = ReturnedValue(Float(125))
        /\ attempts >= 3 => ret = ReturnedValue(Float(150))
        /\ \A fewer \in 0..attempts :
              calculate_reentry_difficulty(fewer).h <= ret.v.h

-----------------------------------------------------------------------------
(* ByzantineConsensus.elect_primary of unnamed/part_002 *)

\* most hubs of one election
MaxHubs == 4

\* a hub, and Python's None
Hub(id) == [t |-> "hub", id |-> id]
None == [t |-> "None"]

\* vote_counts[vote] = vote_counts.get(vote, 0) + 1: counts is the dict as
\* <<candidate, count>> pairs in insertion order
Tally(counts, vote) ==
    IF \E j \in 1..Len(counts) : counts[j][1] = vote
    THEN LET j == CHOOSE j \in 1..Len(counts) : counts[j][1] = vote
         IN  [counts EXCEPT ![j] = <<vote, counts[j][2] + 1>>]
    ELSE Append(counts, <<vote, 1>>)

\* vote_counts after the loop over votes.values() has taken the first i votes
RECURSIVE CountVotes(_, _)
CountVotes(vs, i) ==
    IF i = 0 THEN <<>> ELSE Tally(CountVotes(vs, i - 1), vs[i])

\* threshold = len(hubs) * 2 // 3
Threshold(hubs) == (hubs * 2) \div 3

\* the loop over vote_counts.items(), from entry j on: the first candidate
\* whose count reaches the threshold, None when there is none
RECURSIVE FirstElected(_, _, _)
FirstElected(counts, threshold, j) ==
    IF j > Len(counts) THEN None
    ELSE IF counts[j][2] >= threshold THEN Hub(counts[j][1])
    ELSE FirstElected(counts, threshold, j + 1)

\* elect_primary(hubs), vs[i] being what hubs[i].vote_for_primary() returns
elect_primary(vs) == FirstElected(CountVotes(vs, Len(vs)), Threshold(Len(vs)), 1)

\* any number of hubs, each voting for one of them
InitElection ==
    /\ AtRest
    /\ attempts = 0
    /\ votes \in UNION {[1..n -> 1..n] : n \in 0..MaxHubs}

CallElectPrimary ==
    /\ pc = "ready"
    /\ ret' = ReturnedValue(elect_primary(votes))
    /\ pc' = "elect_primary"
    /\ UNCHANGED <<heap, arg, prefix, storeVars, threads, policyVars>>

NextElection == CallElectPrimary

SpecElection == InitElection /\ [][NextElection]_vars

\* the hubs that voted for candidate c
VotesFor(c) == Cardinality({i \in 1..Len(votes) : votes[i] = c})

\* the candidates that satisfy the election condition
Electable == {c \in {votes[i] : i \in 1..Len(votes)} : VotesFor(c) >= Threshold(Len(votes))}

\* C23: elect_primary returns a candidate only when at least two thirds of
\* the hubs voted for it, at most one candidate satisfies the election
\* condition whatever the number of hubs and their votes, and when no
\* candidate has two thirds of the votes it returns None.
C23_TwoThirdsUnique ==
    pc = "elect_primary" =>
        /\ ret.v # None => 3 * VotesFor(ret.v.id) >= 2 * Len(votes)
        /\ Cardinality(Electable) <= 1
        /\ ret.v = None <=>
              ~\E i \in 1..Len(votes) : 3 * VotesFor(votes[i]) >= 2 * Len(votes)

-----------------------------------------------------------------------------
(* A caller that uses every operation of the module on one record *)

\* the records: a mapping whose keys are not in sorted order, a sequence
\* that holds a sequence, and a sequence that holds itself
ModuleScenarios ==
    { <<h, Ref(1)>> : h \in
        { <<Obj(<< <<KeyGrin, Num(2)>>, <<KeyA, Num(1)>> >>)>>,
          <<Arr(<<Ref(2)>>), Arr(<<>>)>>,
          <<Arr(<<Ref(1)>>)>> } }

InitModule ==
    /\ \E sc \in ModuleScenarios : heap = sc[1] /\ root = sc[2]
    /\ arg = root
    /\ prefix = RecordPrefix
    /\ pc = "ready"
    /\ ret = NoResult
    /\ frozen = {}
    /\ clone = Absent
    /\ before = Nothing
    /\ sealed = Nothing
    /\ first = Nothing
    /\ writes = 0
    /\ attempts = 0
    /\ votes = <<>>
    /\ threads = <<>>

\* writes the caller attempts in one run
MaxModuleWrites == 1

ModuleWrite == writes < MaxModuleWrites /\ AttemptWrite

NextModule ==
    \/ CallDeepFreeze
    \/ CallDeepClone
    \/ ModuleWrite
    \/ ReadCanonicalize
    \/ ReadSha256Hex
    \/ ReadId32

SpecModule == InitModule /\ [][NextModule]_vars

\* the operations that are to leave their argument as it is
PureOps == {"canonicalize", "sha256Hex", "id32", "deepClone"}

\* C24: canonicalize, sha256Hex, id32 and deepClone leave every container
\* that exists when they are called with the keys, in the same insertion
\* order, and the elements it had, and leave frozen what was frozen and
\* mutable what was mutable.
C24_ArgumentUntouched ==
    [][pc' \in PureOps =>
          /\ \A a \in DOMAIN heap : a \in DOMAIN heap' /\ heap'[a] = heap[a]
          /\ frozen' = frozen]_vars

\* canonicalize has encoded a frozen mapping, sorting its keys, and the
\* mapping has its keys in the order they were inserted in
C24_Witness ==
    /\ pc = "canonicalize"
    /\ ret.k = "string"
    /\ arg = root
    /\ root.a \in frozen
    /\ heap[root.a].t = "obj"
    /\ [i \in 1..Len(heap[root.a].ents) |-> heap[root.a].ents[i][1]] = <<KeyGrin, KeyA>>

Orders(n) == {o \in [1..n -> 1..n] : Injective(o)}

\* the entry of a supported mapping's i-th own key: the key's canonical
\* string, ':', the value's canonical string
EntryString(obj, i) ==
    canonicalize(EmptyHeap, Str(obj.ents[i][1]), 1).s \o <<Colon>>
        \o canonicalize(EmptyHeap, obj.ents[i][2], 1).s

\* the characters of s from position i on that are outside string literals
RECURSIVE Bare(_, _, _)
Bare(s, i, inside) ==
    IF i > Len(s) THEN <<>>
    ELSE IF inside
    THEN IF s[i] = Backslash THEN Bare(s, i + 2, TRUE)
         ELSE Bare(s, i + 1, s[i] # Quote)
    ELSE IF s[i] = Quote THEN Bare(s, i + 1, TRUE)
    ELSE <<s[i]>> \o Bare(s, i + 1, FALSE)

\* space, tab, line feed, carriage return
Whitespace == {32, 9, 10, 13}

\* C25: the canonical string of a mapping of supported values is '{', one
\* entry for each own key (the key's canonical string, ':', the canonical
\* string of its value), each key once, with ',' between the entries, and
\* '}', with no whitespace outside string literals; the empty mapping gives
\* "{}".
C25_MappingFormat ==
    (pc = "canonicalize" /\ heap = EmptyHeap /\ arg.t = "obj"
        /\ Supported(heap, arg, 1)) =>
    /\ ret.k = "string"
    /\ \E o \in Orders(Len(arg.ents)) :
          ret.s = <<LBrace>>
                  \o CommaSeparated([i \in 1..Len(arg.ents) |-> EntryString(arg, o[i])])
                  \o <<RBrace>>
    /\ \A i \in 1..Len(Bare(ret.s, 1, FALSE)) : Bare(ret.s, 1, FALSE)[i] \notin Whitespace
    /\ arg = Obj(<<>>) => ret.s = <<123, 125>>

\* {"a": "a b"} has been encoded as {"a":"a b"}
C25_Witness ==
    /\ pc = "canonicalize"
    /\ arg = Obj(<< <<KeyA, Str(<<97, 32, 98>>)>> >>)
    /\ ret = Returned(<<123, 34, 97, 34, 58, 34, 97, 32, 98, 34, 125>>)

-----------------------------------------------------------------------------
(* deepFreeze while another holder of the record writes *)

\* the records: nested containers, a record with a sequence, and a sequence
\* that holds one mapping twice
RaceScenarios ==
    { <<h, Ref(1)>> : h \in
        { Chain(MaxDepth),
          <<Obj(<< <<KeyGrin, Num(2)>>, <<KeyA, Ref(2)>> >>), Arr(<<Num(1)>>)>> }
        \cup SharedHeaps }

\* deepFreeze(record) has been called and has not begun
InitRace ==
    /\ \E sc \in RaceScenarios : heap = sc[1] /\ root = sc[2]
    /\ threads = <<[op |-> "deepFreeze", input |-> root, stack |-> <<>>,
                    canon |-> NoResult, fed |-> Nothing, out |-> NoResult,
                    seen |-> Nothing]>>
    /\ arg = root
    /\ prefix = RecordPrefix
    /\ pc = "ready"
    /\ ret = NoResult
    /\ frozen = {}
    /\ clone = Absent
    /\ before = Nothing
    /\ sealed = Nothing
    /\ first = Nothing
    /\ writes = 0
    /\ attempts = 0
    /\ votes = <<>>

NextRace == FreezeStep \/ AttemptWrite

SpecRace == InitRace /\ [][NextRace]_vars

\* C26: deepFreeze freezes a container before it goes into its members; a
\* write by another holder to a container the traversal has not frozen yet
\* takes effect, also after the call has begun; once the call has returned
\* the record reads as it did at the return whatever is written.
C26_FrozenAsReached ==
    /\ \A p \in DOMAIN threads : \A f \in 1..Len(threads[p].stack) :
          threads[p].stack[f].a \in frozen
    /\ (pc = "write" /\ arg.a \notin frozen) =>
          heap = Put(before.heap, arg.a, Apply(before.heap[arg.a], before.write))
    /\ sealed # Nothing => Unfold(heap, root, 1) = sealed.read

\* deepFreeze has returned a record that does not read as it did when the
\* call began: a nested container was written to during the call
C26_Witness ==
    /\ threads[1].out = ReturnedValue(root)
    /\ threads[1].seen # Nothing
    /\ threads[1].seen.read # Unfold(heap, root, 1)
    /\ Reachable(heap, root) \subseteq frozen

\* C28: deepFreeze on an acyclic value of which some or all containers are
\* frozen already raises no error, returns the reference it was given, leaves
\* the content as it is and leaves frozen, besides what was frozen, exactly
\* the containers reachable from the value: what one call on the unfrozen
\* value leaves frozen.
C28_FreezeIdempotent ==
    [][(/\ pc' = "deepFreeze"
        /\ ~Cyclic(heap, arg')
        /\ Reachable(heap, arg') \cap frozen # {}) =>
          /\ ret' = ReturnedValue(arg')
          /\ heap' = heap
          /\ frozen' = frozen \cup Reachable(heap, arg')
          /\ deepFreeze(heap, {}, arg', 1) =
                [frozen |-> Reachable(heap, arg'), ret |-> ret']]_vars

\* deepFreeze has returned a container inside a record that an earlier call
\* on the record had frozen
C28_Witness ==
    /\ pc = "deepFreeze"
    /\ arg = Ref(2)
    /\ root = Ref(1)
    /\ ret = ReturnedValue(arg)
    /\ 2 \in Reachable(heap, root)
    /\ 1 \notin Reachable(heap, arg)
    /\ 1 \in frozen

\* the records that are cloned: one that holds a mapping twice, nested
\* containers, and mappings with "__proto__" as an own key
CloneScenarios ==
    { <<h, Ref(1)>> : h \in SharedHeaps \cup {Chain(MaxDepth)} \cup ProtoHeaps }

InitClones ==
    /\ \E sc \in CloneScenarios : heap = sc[1] /\ root = sc[2]
    /\ arg = root
    /\ prefix = RecordPrefix
    /\ pc = "ready"
    /\ ret = NoResult
    /\ frozen = {}
    /\ clone = Absent
    /\ before = Nothing
    /\ sealed = Nothing
    /\ first = Nothing
    /\ writes = 0
    /\ attempts = 0
    /\ votes = <<>>
    /\ threads = <<>>

NextClones == CallDeepClone \/ AttemptWrite

\* a holder of a record that clones it and writes to the record and the clone
SpecClones == InitClones /\ [][NextClones]_vars

\* the references to the container at address a held by v and by the
\* containers reachable from v
Holders(h, v, a) ==
    UNION {{<<b, i>> : i \in {i \in 1..Len(Members(h[b])) : Members(h[b])[i] = Ref(a)}} :
              b \in Reachable(h, v)}

\* every container reachable from v is reachable along one path only
Unshared(h, v) ==
    \A a \in Reachable(h, v) :
        Cardinality(Holders(h, v, a)) + (IF v = Ref(a) THEN 1 ELSE 0) = 1

\* some mapping reachable from v has "__proto__" as an own key
HoldsProtoKey(h, v) ==
    \E a \in Reachable(h, v) :
        h[a].t = "obj" /\ \E i \in 1..Len(h[a].ents) : h[a].ents[i][1] = KeyProto

\* C29: in deepClone(x) every container is reachable along one path only, a
\* container that x reaches along two paths being copied once for each, so a
\* write through one path of the clone does not show through another; at the
\* time of cloning the clone is structurally equal to x.
C29_CloneUnshares ==
    /\ (clone # Absent /\ IsObject(clone)) => Unshared(heap, clone)
    /\ (pc = "deepClone" /\ ret.k = "value" /\ ~HoldsProtoKey(heap, arg)) =>
          StructEq(Unfold(heap, ret.v, 1), Unfold(heap, arg, 1))
    /\ (pc = "write" /\ clone # Absent /\ arg # clone
            /\ arg.a \in Reachable(heap, clone) /\ heap # before.heap) =>
          Cardinality({i \in 1..Len(Members(heap[clone.a])) :
                          Unfold(heap, Members(heap[clone.a])[i], 1)
                              # Unfold(before.heap, Members(before.heap[clone.a])[i], 1)})
              <= 1

\* the record holds one mapping twice; a write to the first element of its
\* clone shows in that element and not in the second, and the two elements of
\* the record are still one mapping
C29_Witness ==
    /\ pc = "write"
    /\ clone # Absent
    /\ heap[root.a] = Arr(<<Ref(2), Ref(2)>>)
    /\ arg = heap[clone.a].items[1]
    /\ heap # before.heap
    /\ Unfold(heap, heap[clone.a].items[1], 1) # Unfold(heap, heap[clone.a].items[2], 1)
    /\ Unfold(heap, heap[clone.a].items[2], 1) = Unfold(heap, Ref(2), 1)

\* what is left of the first c in s
BeforeFirst(s, c) == SubSeq(s, 1, FindSub(s, <<c>>) - 1)

\* C30: id32 accepts every prefix, the empty one, one with '_' in it and one
\* with characters of no identifier alphabet included: it never raises
\* PrefixError, it raises only what sha256Hex raises on the material, and
\* otherwise it returns the prefix, '_' and IdHexLen hexadecimal characters;
\* splitting the identifier at its first '_' gives back the prefix only if
\* the prefix has no '_'.
C30_NoPrefixValidation ==
    pc = "id32" =>
        /\ ret # Thrown("PrefixError")
        /\ ret.k = "throw" => ret = sha256Hex(heap, arg, 1)
        /\ ret.k # "throw" =>
              /\ ret.k = "string"
              /\ Len(ret.s) = Len(prefix) + 1 + IdHexLen
              /\ SubSeq(ret.s, 1, Len(prefix) + 1) = prefix \o <<Underscore>>
              /\ \A i \in (Len(prefix) + 2)..Len(ret.s) : ret.s[i] \in HexChars
              /\ (BeforeFirst(ret.s, Underscore) = prefix)
                    <=> ~\E i \in 1..Len(prefix) : prefix[i] = Underscore

\* id32("a_b", m) has returned an identifier whose part before the first '_'
\* is "a"
C30_Witness ==
    /\ pc = "id32"
    /\ prefix = <<97, Underscore, 98>>
    /\ ret.k = "string"
    /\ BeforeFirst(ret.s, Underscore) = <<97>>

====
